---- MODULE Spec2Model ----
(***************************************************************************)
(* DockerMachineHypervisor (golem/docker/hypervisor/docker_machine.py):    *)
(* the lifecycle of one docker-machine VM: setup, create, vms,             *)
(* get_port_mapping, restart_ctx, and the environment synchronisation      *)
(* with its recovery cascade (_set_env / _recover).                        *)
(*                                                                         *)
(* Text is a sequence of one-character strings, so that the parsing the    *)
(* code does (split, strip, lower, replace) is computed, not assumed.      *)
(* One action is one blocking call of the driver (or of a collaborator);   *)
(* pc is the position of the single thread of control.                     *)
(***************************************************************************)
EXTENDS Integers, Sequences, FiniteSets, TLC

VARIABLES
    op,          \* the public operation in progress (or last finished)
    pc,          \* position inside it; "idle" before any call, "done" after one
    retried,     \* the retried argument of the current _set_env frame
    restarted,   \* the restarted argument of the current _recover frame
    trace,       \* the calls made so far by the operation, with their results
    outcome,     \* how the operation ended: [kind, val]
    environ,     \* os.environ: a function from names to values
    config_dir,  \* self._config_dir
    cmdOut,      \* the output the driver gave to the last list, ip or env command
    envStart,    \* Len(trace) when the operation entered _set_env(retried=False)
    retryEnv,    \* [environ, config_dir] when _set_env(retried=True) was entered
    retryResult, \* how the _set_env(retried=True) call ended
    port,        \* the local variable port of get_port_mapping
    listed       \* in setup: whether self.vms held self._vm_name

vars == <<op, pc, retried, restarted, trace, outcome, environ, config_dir,
          cmdOut, envStart, retryEnv, retryResult, port, listed>>

---------------------------------------------------------------------------
(* Bounds of the model.                                                    *)

\* most lines (split by "\n") of an output of the list command
MaxListLines == 4
\* most lines of an output of the env command
MaxEnvLines == 2
\* most lines of an output of the ip command
MaxIpLines == 2

---------------------------------------------------------------------------
(* Python values.                                                          *)

None == <<"None">>

Return(v) == [kind |-> "return", val |-> v]
Raise(e) == [kind |-> "raise", val |-> e]
NoResult == [kind |-> "none", val |-> None]

\* str.isspace for the characters of the model
IsSpace(c) == c \in {" ", "\t", "\n", "\r", "\f"}

Digits == <<"0", "1", "2", "3", "4", "5", "6", "7", "8", "9">>

\* str.isnumeric for one character
isnumeric(c) == \E i \in 1..10 : Digits[i] = c

DigitVal(c) == (CHOOSE i \in 1..10 : Digits[i] = c) - 1

UpperCase == <<"A", "B", "C", "D", "E", "F", "G", "H", "I", "J", "K", "L", "M",
               "N", "O", "P", "Q", "R", "S", "T", "U", "V", "W", "X", "Y", "Z">>
LowerCase == <<"a", "b", "c", "d", "e", "f", "g", "h", "i", "j", "k", "l", "m",
               "n", "o", "p", "q", "r", "s", "t", "u", "v", "w", "x", "y", "z">>

\* str.lower
lower(s) ==
    [i \in 1..Len(s) |->
        IF \E k \in 1..26 : UpperCase[k] = s[i]
        THEN LowerCase[CHOOSE k \in 1..26 : UpperCase[k] = s[i]]
        ELSE s[i]]

RECURSIVE find_from(_, _, _)
find_from(s, c, i) ==
    IF i > Len(s) THEN 0 ELSE IF s[i] = c THEN i ELSE find_from(s, c, i + 1)

\* index of the first occurrence of character c in s, 0 if there is none
find(s, c) == find_from(s, c, 1)

\* s[i:] with i counted from 1
From(s, i) == SubSeq(s, i, Len(s))

RECURSIVE split(_, _)
\* str.split(sep) for a one-character separator
split(s, sep) ==
    LET i == find(s, sep) IN
    IF i = 0 THEN <<s>>
    ELSE <<SubSeq(s, 1, i - 1)>> \o split(From(s, i + 1), sep)

\* str.split(sep, 1)
split1(s, sep) ==
    LET i == find(s, sep) IN
    IF i = 0 THEN <<s>>
    ELSE <<SubSeq(s, 1, i - 1), From(s, i + 1)>>

RECURSIVE lstrip(_)
lstrip(s) == IF s # <<>> /\ IsSpace(s[1]) THEN lstrip(Tail(s)) ELSE s

RECURSIVE rstrip(_)
rstrip(s) ==
    IF s # <<>> /\ IsSpace(s[Len(s)]) THEN rstrip(SubSeq(s, 1, Len(s) - 1)) ELSE s

\* str.strip()
strip(s) == rstrip(lstrip(s))

\* length of the leading run of non-space characters of s
RECURSIVE WordLen(_)
WordLen(s) == IF s = <<>> \/ IsSpace(s[1]) THEN 0 ELSE 1 + WordLen(Tail(s))

RECURSIVE split_ws(_)
\* str.split() without a separator: the words between runs of whitespace
split_ws(s) ==
    LET t == lstrip(s) IN
    IF t = <<>> THEN <<>>
    ELSE LET n == WordLen(t) IN <<SubSeq(t, 1, n)>> \o split_ws(From(t, n + 1))

RECURSIVE replace(_, _)
\* str.replace(c, ''): every occurrence of the character c removed
replace(s, c) ==
    IF s = <<>> THEN <<>>
    ELSE (IF s[1] = c THEN <<>> ELSE <<s[1]>>) \o replace(Tail(s), c)

RECURSIVE join(_, _)
\* sep.join(parts)
join(sep, parts) ==
    IF parts = <<>> THEN <<>>
    ELSE IF Len(parts) = 1 THEN parts[1]
    ELSE parts[1] \o sep \o join(sep, Tail(parts))

\* seq[1:]: the last line kept
slice_1(seq) == IF seq = <<>> THEN <<>> ELSE Tail(seq)

\* seq[1:-1]
slice_1_m1(seq) == IF Len(seq) <= 2 THEN <<>> ELSE SubSeq(seq, 2, Len(seq) - 1)

\* seq[:-1]
slice_m1(seq) == IF seq = <<>> THEN <<>> ELSE SubSeq(seq, 1, Len(seq) - 1)

RECURSIVE int(_)
\* int(s) for a string of decimal digits
int(s) == IF s = <<>> THEN 0 ELSE 10 * int(slice_m1(s)) + DigitVal(s[Len(s)])

Elems(seq) == {seq[i] : i \in 1..Len(seq)}

\* the sequences over S of length at most n
SeqsUpTo(S, n) == UNION {[1..k -> S] : k \in 0..n}

---------------------------------------------------------------------------
(* Constants of the program and of its platform.                           *)

\* golem.docker.config.DOCKER_VM_NAME, the default vm_name of __init__
DOCKER_VM_NAME == <<"g", "o", "l", "e", "m">>

\* os.path.sep (POSIX)
os_path_sep == "/"

S_set == <<"s", "e", "t">>

DOCKER_CERT_PATH ==
    <<"D", "O", "C", "K", "E", "R", "_", "C", "E", "R", "T", "_", "P", "A", "T", "H">>

---------------------------------------------------------------------------
(* What the driver and the docker client can answer: the inputs.           *)

L_header == <<"N", "A", "M", "E", " ", "A", "C", "T", "I", "V", "E">>
L_golem == <<"g", "o", "l", "e", "m", " ", "-", " ">>
L_other == <<" ", "o", "t", "h", "e", "r", "-", "v", "m", " ", " ", "x">>
L_spaces == <<" ", " ">>

\* the lines an output of the list command is made of
ListLines == {L_header, L_golem, L_other, L_spaces, <<>>}

ListOutputs == {join(<<"\n">>, ls) : ls \in SeqsUpTo(ListLines, MaxListLines)}

E_tls ==
    <<"S", "E", "T", " ", "D", "O", "C", "K", "E", "R", "_", "T", "L", "S", "_",
      "V", "E", "R", "I", "F", "Y", "=", "1">>
E_cert ==
    <<"s", "e", "t", " ", "D", "O", "C", "K", "E", "R", "_", "C", "E", "R", "T", "_",
      "P", "A", "T", "H", "=", "\"", "/", "a", "/", "b", "/", "c", "\"">>
E_cert2 ==
    <<"S", "E", "T", " ", "D", "O", "C", "K", "E", "R", "_", "C", "E", "R", "T", "_",
      "P", "A", "T", "H", "=", "/", "x", "/", "y">>
E_rem == <<"R", "E", "M", " ", "R", "u", "n", " ", "t", "h", "i", "s">>
E_word == <<"R", "E", "M">>
E_noeq == <<"s", "e", "t", " ", "N", "O", "E", "Q">>

\* the lines an output of the env command is made of
EnvLines == {E_tls, E_cert, E_cert2, E_rem, E_word, E_noeq, <<>>}

EnvOutputs == {join(<<"\n">>, ls) : ls \in SeqsUpTo(EnvLines, MaxEnvLines)}

I_ip == <<"1", "9", "2", ".", "1", "6", "8", ".", "9", "9", ".", "1", "0", "0">>
I_bad == <<"9", "9", "9", ".", "1", ".", "1", ".", "1">>
I_short == <<"1", "0", ".", "0", ".", "0">>
I_text == <<"S", "t", "a", "r", "t", "i", "n", "g", " ", "V", "M">>
I_other == <<"1", "0", ".", "0", ".", "0", ".", "7">>

\* the lines an output of the ip command is made of
IpLines == {I_ip, I_other, I_bad, I_short, I_text, <<>>}

IpOutputs == {join(<<"\n">>, ls) : ls \in SeqsUpTo(IpLines, MaxIpLines)}

P_a == <<"3", "2", "7", "6", "8">>
P_b == <<"8", "0">>

\* what c_config['NetworkSettings']['Ports'] can hold for the key '<port>/tcp':
\* a list of bindings (their HostPort), None, or no such key
PortBindings ==
    {[kind |-> "list", val |-> hp] : hp \in {<<>>, <<P_a>>, <<P_b, P_a>>}}
    \cup {[kind |-> "None", val |-> <<>>], [kind |-> "missing", val |-> <<>>]}

\* the params a caller of create() passes
ParamSets == SUBSET {"cpu_count", "extra"}

\* self._get_config(): what the get_config_fn given to __init__ returns
_get_config == {"cpu_count", "extra"}

\* the outputs the driver can print for a subcommand
Outputs(cmd) ==
    CASE cmd = "list" -> ListOutputs
      [] cmd = "env" -> EnvOutputs
      [] cmd = "ip" -> IpOutputs
      [] OTHER -> {<<>>}

Ok(out) == [kind |-> "ok", out |-> out]
CalledProcessError == [kind |-> "CalledProcessError", out |-> <<>>]
TimeoutExpired == [kind |-> "TimeoutExpired", out |-> <<>>]

\* Hypervisor.command: the captured output, or a non-zero exit, or (only
\* when a timeout is given) a timeout
command(cmd, timeout) ==
    {Ok(o) : o \in Outputs(cmd)} \cup {CalledProcessError}
    \cup (IF timeout THEN {TimeoutExpired} ELSE {})

\* Hypervisor.remove: True, False, or a non-zero exit let through
remove_results == {"True", "False", "CalledProcessError"}

---------------------------------------------------------------------------
(* The methods, as functions of what the driver answered.                  *)

\* self._vm_name, set by __init__
_vm_name == DOCKER_VM_NAME

\* one call made by an operation: the subcommand (or collaborator), the VM
\* name and arguments it was given (for inspect_container: the HostPort
\* of each binding it answered), how it ended, and, for the env command,
\* the retried argument of the _set_env that issued it
Event(cmd, name, args, res, isRetry) ==
    [cmd |-> cmd, name |-> name, args |-> args, res |-> res, retried |-> isRetry]

\* vms without its except clause: the non-zero exit of the list command
\* let through
vms_unhandled(r) ==
    IF r.kind = "CalledProcessError" THEN Raise("CalledProcessError")
    ELSE IF r.out # <<>>
    THEN LET lines == slice_1_m1(split(r.out, "\n"))
             words == [i \in 1..Len(lines) |-> split_ws(strip(lines[i]))]
         IN IF \E i \in 1..Len(lines) : words[i] = <<>>
            THEN Raise("IndexError")
            ELSE Return([i \in 1..Len(lines) |-> words[i][1]])
    ELSE Return(<<>>)

\* the vms property on the result r of command('list')
vms(r) ==
    IF r.kind = "CalledProcessError" THEN Return(<<>>)
    ELSE IF r.out # <<>>
    THEN LET lines == slice_1_m1(split(r.out, "\n"))
             words == [i \in 1..Len(lines) |-> split_ws(strip(lines[i]))]
         IN IF \E i \in 1..Len(lines) : words[i] = <<>>
            THEN Raise("IndexError")
            ELSE Return([i \in 1..Len(lines) |-> words[i][1]])
    ELSE Return(<<>>)

\* vm_name or self._vm_name
name_or_default(vm_name) == IF vm_name = <<>> THEN _vm_name ELSE vm_name

\* create() returning True whatever the command did
create_always_true(r) == Return(TRUE)

\* create() on the result r of command('create', ...)
create(r) == IF r.kind = "CalledProcessError" THEN Return(FALSE) ELSE Return(TRUE)

\* os.environ[var] = val
setitem(env, var, val) ==
    [k \in (DOMAIN env) \cup {var} |-> IF k = var THEN val ELSE env[k]]

\* the directory of a DOCKER_CERT_PATH value
cert_dir(val) ==
    join(<<os_path_sep>>, slice_m1(split(replace(val, "\""), os_path_sep)))

\* one turn of the loop of _set_env_from_output, up to the assignment: the
\* line is passed over ("continue"), cannot be unpacked ("ValueError"), or
\* sets var to val ("set")
env_line(line) ==
    LET cp == split1(line, " ") IN
    IF line = <<>> THEN [act |-> "continue", var |-> <<>>, val |-> <<>>]
    ELSE IF Len(cp) # 2 THEN [act |-> "ValueError", var |-> <<>>, val |-> <<>>]
    ELSE IF lower(cp[1]) # S_set THEN [act |-> "continue", var |-> <<>>, val |-> <<>>]
    ELSE LET vv == split1(cp[2], "=") IN
         IF Len(vv) # 2 THEN [act |-> "ValueError", var |-> <<>>, val |-> <<>>]
         ELSE [act |-> "set", var |-> vv[1], val |-> vv[2]]

\* output.split('\n'), each line taken through env_line; worked out once
\* for every output of the env command
EnvTurns ==
    [o \in EnvOutputs |->
        LET lines == split(o, "\n") IN [i \in 1..Len(lines) |-> env_line(lines[i])]]

RECURSIVE env_loop(_, _, _)
\* the loop of _set_env_from_output over the turns left
env_loop(turns, env, cfg) ==
    IF turns = <<>>
    THEN [environ |-> env, config_dir |-> cfg, result |-> Return(None)]
    ELSE LET t == Head(turns) IN
         IF t.act = "ValueError"
         THEN [environ |-> env, config_dir |-> cfg, result |-> Raise("ValueError")]
         ELSE IF t.act = "continue" THEN env_loop(Tail(turns), env, cfg)
         ELSE env_loop(Tail(turns), setitem(env, t.var, t.val),
                       IF t.var = DOCKER_CERT_PATH THEN cert_dir(t.val) ELSE cfg)

_set_env_from_output(output, env, cfg) == env_loop(EnvTurns[output], env, cfg)

\* _set_env without the test of retried: every failed export recovers
_set_env_always_recovers(r, isRetry, env, cfg) ==
    IF r.kind = "CalledProcessError"
    THEN [next |-> "recover", environ |-> env, config_dir |-> cfg,
          result |-> NoResult]
    ELSE IF r.out # <<>>
         THEN LET e == _set_env_from_output(r.out, env, cfg) IN
              [next |-> "done", environ |-> e.environ, config_dir |-> e.config_dir,
               result |-> e.result]
         ELSE [next |-> "done", environ |-> env, config_dir |-> cfg,
               result |-> Return(None)]

\* _set_env taking empty output for a failed export
_set_env_empty_recovers(r, isRetry, env, cfg) ==
    IF r.kind = "CalledProcessError" \/ r.out = <<>>
    THEN IF ~isRetry
         THEN [next |-> "recover", environ |-> env, config_dir |-> cfg,
               result |-> NoResult]
         ELSE [next |-> "done", environ |-> env, config_dir |-> cfg,
               result |-> Raise("CalledProcessError")]
    ELSE LET e == _set_env_from_output(r.out, env, cfg) IN
         [next |-> "done", environ |-> e.environ, config_dir |-> e.config_dir,
          result |-> e.result]

\* _set_env on the result r of command('env', ...): where control goes
\* ("recover" or "done"), the environment it leaves and how it ends
_set_env(r, isRetry, env, cfg) ==
    IF r.kind = "CalledProcessError"
    THEN IF ~isRetry
         THEN [next |-> "recover", environ |-> env, config_dir |-> cfg,
               result |-> NoResult]
         ELSE [next |-> "done", environ |-> env, config_dir |-> cfg,
               result |-> Raise("CalledProcessError")]
    ELSE IF r.out # <<>>
         THEN LET e == _set_env_from_output(r.out, env, cfg) IN
              [next |-> "done", environ |-> e.environ, config_dir |-> e.config_dir,
               result |-> e.result]
         ELSE [next |-> "done", environ |-> env, config_dir |-> cfg,
               result |-> Return(None)]

\* _recover without the return after a successful regenerate_certs
after_regenerate_falls_through(res, isRestarted) ==
    IF ~isRestarted THEN "recover_restart" ELSE "recover_remove"

\* _recover without the test of restarted
after_regenerate_restarts_again(res, isRestarted) ==
    IF res = "ok" THEN "set_env" ELSE "recover_restart"

\* _recover after command('regenerate_certs', ...) ended as res
after_regenerate(res, isRestarted) ==
    IF res = "ok" THEN "set_env"
    ELSE IF ~isRestarted THEN "recover_restart"
    ELSE "recover_remove"

\* _recover after command('restart', ...) ended as res
after_restart(res) == IF res = "ok" THEN "recover" ELSE "recover_remove"

\* _recover ending without its last sync when remove did not succeed
after_remove_gives_up(res) == IF res = "True" THEN "recover_create" ELSE "done"

\* _recover without the test of what remove returned
after_remove_always_creates(res) == "recover_create"

\* _recover after self.remove(...) ended as res
after_remove(res) == IF res = "True" THEN "recover_create" ELSE "set_env"

\* return self._set_env(retried=True) and return self._recover(restarted=True)
_recover_return(x) == x

\* return self._recover()
_set_env_return(x) == x

\* what _set_env(retried=isRetry) hands to its caller when its body ends as x
set_env_result(x, isRetry) ==
    IF isRetry THEN _set_env_return(_recover_return(x)) ELSE x

\* setup and restart_ctx end with the statement self._set_env()
after_set_env(theOp, x) ==
    IF theOp = "_set_env" \/ x.kind = "raise" THEN x ELSE Return(None)

RECURSIVE splitlines_from(_, _)
splitlines_from(s, cur) ==
    IF s = <<>> THEN (IF cur = <<>> THEN <<>> ELSE <<cur>>)
    ELSE IF s[1] = "\r" /\ Len(s) >= 2 /\ s[2] = "\n"
    THEN <<cur>> \o splitlines_from(From(s, 3), <<>>)
    ELSE IF s[1] \in {"\n", "\r", "\f"}
    THEN <<cur>> \o splitlines_from(Tail(s), <<>>)
    ELSE splitlines_from(Tail(s), Append(cur, s[1]))

\* str.splitlines()
splitlines(s) == splitlines_from(s, <<>>)

\* one octet of a dotted quad, as ipaddress parses it
is_octet(s) ==
    /\ Len(s) \in 1..3
    /\ \A i \in 1..Len(s) : isnumeric(s[i])
    /\ (Len(s) > 1 => s[1] # "0")
    /\ int(s) <= 255

\* whether ipaddress.ip_address(line) accepts the line (the lines of the
\* model hold no ':', so only the IPv4 form is decided here)
ip_address(line) ==
    LET parts == split(line, ".") IN
    Len(parts) = 4 /\ \A i \in 1..4 : is_octet(parts[i])

RECURSIVE last_ip(_)
\* the loop of get_port_mapping without its break: the last line that
\* parses wins
last_ip(lines) ==
    IF lines = <<>> THEN None
    ELSE LET line == lines[Len(lines)] IN
         IF line # <<>> /\ isnumeric(line[1]) /\ ip_address(line) THEN line
         ELSE last_ip(SubSeq(lines, 1, Len(lines) - 1))

RECURSIVE first_ip(_)
\* the loop of get_port_mapping over the lines left: the ip, or None
first_ip(lines) ==
    IF lines = <<>> THEN None
    ELSE LET line == Head(lines) IN
         IF line # <<>> /\ isnumeric(line[1]) /\ ip_address(line) THEN line
         ELSE first_ip(Tail(lines))

\* int(c_config['NetworkSettings']['Ports'][f'{port}/tcp'][0]['HostPort'])
host_port(b) ==
    IF b.kind = "missing" THEN Raise("KeyError")
    ELSE IF b.kind = "None" THEN Raise("TypeError")
    ELSE IF b.val = <<>> THEN Raise("IndexError")
    ELSE Return(int(b.val[1]))

\* the end of get_port_mapping on the result r of command('ip', ...)
get_port_mapping(r, thePort) ==
    IF r.kind = "CalledProcessError" THEN Raise("CalledProcessError")
    ELSE LET ip == first_ip(splitlines(r.out)) IN
         IF ip = None THEN Raise("AssertionError") ELSE Return(<<ip, thePort>>)

---------------------------------------------------------------------------
(* The state machine.                                                      *)

NoSnap == [environ |-> <<>>, config_dir |-> None]

Init ==
    /\ op = "none"
    /\ pc = "idle"
    /\ retried = FALSE
    /\ restarted = FALSE
    /\ trace = <<>>
    /\ outcome = NoResult
    /\ environ = <<>>
    /\ config_dir = None
    /\ cmdOut = None
    /\ envStart = -1
    /\ retryEnv = NoSnap
    /\ retryResult = NoResult
    /\ port = 0
    /\ listed = "unknown"

\* a caller starts the public operation theOp: the manager is used from one
\* control flow at a time, so only when no operation is in progress
Begin(theOp) ==
    /\ pc = "idle"
    /\ op' = theOp
    /\ UNCHANGED <<retried, restarted, retryEnv, retryResult>>

\* the operation ends
Finish(o) == pc' = "done" /\ outcome' = o

\* control enters self._set_env() after the calls in newTrace
EnterSetEnv(newTrace) ==
    /\ pc' = "set_env"
    /\ retried' = FALSE
    /\ restarted' = FALSE
    /\ envStart' = Len(newTrace)
    /\ outcome' = NoResult

\* _recover calls self._set_env(retried=True)
EnterRetry ==
    /\ pc' = "set_env"
    /\ retried' = TRUE
    /\ retryEnv' = [environ |-> environ, config_dir |-> config_dir]

\* the vms property, read by a caller
Vms ==
    /\ Begin("vms")
    /\ \E r \in command("list", FALSE) :
        /\ trace' = <<Event("list", <<>>, {}, r.kind, FALSE)>>
        /\ cmdOut' = r.out
        /\ Finish(vms(r))
    /\ port' = 0
    /\ listed' = "unknown"
    /\ UNCHANGED <<environ, config_dir, envStart>>

\* create(vm_name, **params), called by a caller
Create ==
    /\ Begin("create")
    /\ \E vm_name \in {<<>>, _vm_name, <<"v", "m">>}, params \in ParamSets,
          r \in command("create", FALSE) :
        /\ trace' = <<Event("create", name_or_default(vm_name), params, r.kind, FALSE)>>
        /\ Finish(create(r))
    /\ port' = 0
    /\ listed' = "unknown"
    /\ cmdOut' = None
    /\ UNCHANGED <<environ, config_dir, envStart>>

\* setup(): if self._vm_name not in self.vms
SetupVms ==
    /\ Begin("setup")
    /\ \E r \in command("list", FALSE) :
        LET v == vms(r) IN
        /\ trace' = <<Event("list", <<>>, {}, r.kind, FALSE)>>
        /\ IF v.kind = "raise"
           THEN Finish(v) /\ listed' = "unknown"
           ELSE /\ outcome' = NoResult
                /\ IF _vm_name \in Elems(v.val)
                   THEN pc' = "setup_running" /\ listed' = "present"
                   ELSE pc' = "setup_create" /\ listed' = "absent"
    /\ port' = 0
    /\ cmdOut' = None
    /\ UNCHANGED <<environ, config_dir, envStart>>

\* setup(): if not self.create(self._vm_name, **self._get_config()): raise
SetupCreate ==
    /\ pc = "setup_create"
    /\ \E r \in command("create", FALSE) :
        /\ trace' = Append(trace, Event("create", name_or_default(_vm_name),
                                        _get_config, r.kind, FALSE))
        /\ IF create(r).val
           THEN pc' = "setup_running" /\ outcome' = NoResult
           ELSE Finish(Raise("Exception"))
    /\ UNCHANGED <<op, retried, restarted, environ, config_dir, cmdOut, envStart,
                   retryEnv, retryResult, port, listed>>

\* setup() without the test of vm_running(): restore_vm() in every run
SetupRunning_always_restores ==
    /\ pc = "setup_running"
    /\ \E running \in BOOLEAN :
        /\ trace' = Append(trace, Event("vm_running", _vm_name, {},
                                        IF running THEN "True" ELSE "False", FALSE))
        /\ pc' = "setup_restore"
    /\ UNCHANGED <<op, retried, restarted, envStart, outcome, environ, config_dir,
                   cmdOut, retryEnv, retryResult, port, listed>>

\* setup(): if not self.vm_running()
SetupRunning ==
    /\ pc = "setup_running"
    /\ \E running \in BOOLEAN :
        LET t == Append(trace, Event("vm_running", _vm_name, {},
                                     IF running THEN "True" ELSE "False", FALSE))
        IN /\ trace' = t
           /\ IF running
              THEN EnterSetEnv(t)
              ELSE /\ pc' = "setup_restore"
                   /\ UNCHANGED <<retried, restarted, envStart, outcome>>
    /\ UNCHANGED <<op, environ, config_dir, cmdOut, retryEnv, retryResult, port,
                   listed>>

\* setup(): self.restore_vm()
SetupRestore ==
    /\ pc = "setup_restore"
    /\ LET t == Append(trace, Event("restore_vm", _vm_name, {}, "ok", FALSE))
       IN trace' = t /\ EnterSetEnv(t)
    /\ UNCHANGED <<op, environ, config_dir, cmdOut, retryEnv, retryResult, port,
                   listed>>

\* _set_env(), called on its own
CallSetEnv ==
    /\ Begin("_set_env")
    /\ trace' = <<>>
    /\ pc' = "set_env"
    /\ envStart' = 0
    /\ outcome' = NoResult
    /\ port' = 0
    /\ listed' = "unknown"
    /\ cmdOut' = None
    /\ UNCHANGED <<environ, config_dir>>

\* _set_env(retried): the env command and what follows from its result
SetEnv ==
    /\ pc = "set_env"
    /\ \E r \in command("env", FALSE) :
        LET e == _set_env(r, retried, environ, config_dir) IN
        /\ trace' = Append(trace, Event("env", _vm_name, {"--shell", "cmd"},
                                        r.kind, retried))
        /\ cmdOut' = r.out
        /\ environ' = e.environ
        /\ config_dir' = e.config_dir
        /\ IF e.next = "recover"
           THEN /\ pc' = "recover"
                /\ restarted' = FALSE
                /\ UNCHANGED <<outcome, retryResult>>
           ELSE /\ Finish(after_set_env(op, set_env_result(e.result, retried)))
                /\ retryResult' = (IF retried THEN e.result ELSE retryResult)
                /\ UNCHANGED restarted
    /\ UNCHANGED <<op, retried, envStart, retryEnv, port, listed>>

\* _recover(restarted): the regenerate_certs command
RecoverRegenerate ==
    /\ pc = "recover"
    /\ \E r \in command("regenerate_certs", TRUE) :
        /\ trace' = Append(trace, Event("regenerate_certs", _vm_name, {}, r.kind,
                                        FALSE))
        /\ IF after_regenerate(r.kind, restarted) = "set_env"
           THEN EnterRetry
           ELSE /\ pc' = after_regenerate(r.kind, restarted)
                /\ UNCHANGED <<retried, retryEnv>>
    /\ UNCHANGED <<op, restarted, outcome, environ, config_dir, cmdOut, envStart,
                   retryResult, port, listed>>

\* the restart command followed by self._recover() without restarted=True
RecoverRestart_forgets ==
    /\ pc = "recover_restart"
    /\ \E r \in command("restart", TRUE) :
        /\ trace' = Append(trace, Event("restart", _vm_name, {}, r.kind, FALSE))
        /\ pc' = after_restart(r.kind)
    /\ UNCHANGED <<op, retried, restarted, outcome, environ, config_dir, cmdOut,
                   envStart, retryEnv, retryResult, port, listed>>

\* _recover(restarted=False): the restart command
RecoverRestart ==
    /\ pc = "recover_restart"
    /\ \E r \in command("restart", TRUE) :
        /\ trace' = Append(trace, Event("restart", _vm_name, {}, r.kind, FALSE))
        /\ pc' = after_restart(r.kind)
        /\ restarted' = (IF after_restart(r.kind) = "recover" THEN TRUE ELSE restarted)
    /\ UNCHANGED <<op, retried, outcome, environ, config_dir, cmdOut, envStart,
                   retryEnv, retryResult, port, listed>>

\* _recover: self.remove(self._vm_name)
RecoverRemove ==
    /\ pc = "recover_remove"
    /\ \E res \in remove_results :
        /\ trace' = Append(trace, Event("remove", _vm_name, {}, res, FALSE))
        /\ IF after_remove(res) = "set_env"
           THEN EnterRetry
           ELSE pc' = after_remove(res) /\ UNCHANGED <<retried, retryEnv>>
    /\ UNCHANGED <<op, restarted, outcome, environ, config_dir, cmdOut, envStart,
                   retryResult, port, listed>>

\* _recover: self.create(self._vm_name), its result dropped
RecoverCreate ==
    /\ pc = "recover_create"
    /\ \E r \in command("create", FALSE) :
        trace' = Append(trace, Event("create", name_or_default(_vm_name), {}, r.kind,
                                     FALSE))
    /\ EnterRetry
    /\ UNCHANGED <<op, restarted, outcome, environ, config_dir, cmdOut, envStart,
                   retryResult, port, listed>>

\* restart_ctx(): entering the base class's restart_ctx
CtxEnter ==
    /\ Begin("restart_ctx")
    /\ trace' = <<Event("base_enter", _vm_name, {}, "ok", FALSE)>>
    /\ pc' = "ctx_body"
    /\ outcome' = NoResult
    /\ port' = 0
    /\ listed' = "unknown"
    /\ cmdOut' = None
    /\ UNCHANGED <<environ, config_dir, envStart>>

\* restart_ctx(): the caller's block runs at the yield; an error it raises
\* is thrown in at the yield and leaves through the with statement
CtxBody ==
    /\ pc = "ctx_body"
    /\ \E res \in {"ok", "raise"} :
        /\ trace' = Append(trace, Event("body", <<>>, {}, res, FALSE))
        /\ IF res = "ok"
           THEN pc' = "ctx_exit" /\ outcome' = NoResult
           ELSE Finish(Raise("BodyError"))
    /\ UNCHANGED <<op, retried, restarted, environ, config_dir, cmdOut, envStart,
                   retryEnv, retryResult, port, listed>>

\* restart_ctx(): the base class's restart_ctx closes, then self._set_env()
CtxExit ==
    /\ pc = "ctx_exit"
    /\ LET t == Append(trace, Event("base_exit", _vm_name, {}, "ok", FALSE))
       IN trace' = t /\ EnterSetEnv(t)
    /\ UNCHANGED <<op, environ, config_dir, cmdOut, retryEnv, retryResult, port,
                   listed>>

\* get_port_mapping(): the container's host port
PortInspect ==
    /\ Begin("get_port_mapping")
    /\ \E b \in PortBindings :
        LET p == host_port(b) IN
        /\ trace' = <<Event("inspect_container", <<>>, b.val, b.kind, FALSE)>>
        /\ IF p.kind = "raise"
           THEN Finish(p) /\ port' = 0
           ELSE pc' = "port_ip" /\ outcome' = NoResult /\ port' = p.val
    /\ listed' = "unknown"
    /\ cmdOut' = None
    /\ UNCHANGED <<environ, config_dir, envStart>>

\* get_port_mapping(): the ip command and the scan of its output
PortIp ==
    /\ pc = "port_ip"
    /\ \E r \in command("ip", FALSE) :
        /\ trace' = Append(trace, Event("ip", _vm_name, {}, r.kind, FALSE))
        /\ cmdOut' = r.out
        /\ Finish(get_port_mapping(r, port))
    /\ UNCHANGED <<op, retried, restarted, environ, config_dir, envStart, retryEnv,
                   retryResult, port, listed>>

\* the caller has the result (or the error) of the operation; what stays
\* is the process environment and the certificate directory
ReturnToCaller ==
    /\ pc = "done"
    /\ pc' = "idle"
    /\ op' = "none"
    /\ retried' = FALSE
    /\ restarted' = FALSE
    /\ trace' = <<>>
    /\ outcome' = NoResult
    /\ cmdOut' = None
    /\ envStart' = -1
    /\ retryEnv' = NoSnap
    /\ retryResult' = NoResult
    /\ port' = 0
    /\ listed' = "unknown"
    /\ UNCHANGED <<environ, config_dir>>

Next ==
    \/ ReturnToCaller
    \/ Vms
    \/ Create
    \/ SetupVms
    \/ SetupCreate
    \/ SetupRunning
    \/ SetupRestore
    \/ CallSetEnv
    \/ SetEnv
    \/ RecoverRegenerate
    \/ RecoverRestart
    \/ RecoverRemove
    \/ RecoverCreate
    \/ CtxEnter
    \/ CtxBody
    \/ CtxExit
    \/ PortInspect
    \/ PortIp

Spec == Init /\ [][Next]_vars

---------------------------------------------------------------------------
(* Reading the trace.                                                      *)

Cmds(seq) == [i \in 1..Len(seq) |-> seq[i].cmd]

Count(seq, c) == Cardinality({i \in 1..Len(seq) : seq[i].cmd = c})

\* the calls made since the operation entered _set_env(retried=False)
Episode == IF envStart < 0 THEN <<>> ELSE SubSeq(trace, envStart + 1, Len(trace))

InProgress == pc \notin {"idle", "done"}

Raised(e) == pc = "done" /\ outcome.kind = "raise" /\ outcome.val = e

RepairCmds == {"regenerate_certs", "restart", "remove", "create"}

---------------------------------------------------------------------------
(* The claims.                                                             *)

\* C1: in setup(), when self.vms does not hold the managed name, the next
\* call is create with the managed name; if that create returns False then
\* setup() raises, create was attempted exactly once, and neither the
\* running check nor restore_vm nor the env export was made.
C1_SetupCreateFailure ==
    (op = "setup" /\ listed = "absent") =>
        /\ Len(trace) = 1 => pc = "setup_create"
        /\ Len(trace) >= 2 =>
            /\ trace[2].cmd = "create"
            /\ trace[2].name = DOCKER_VM_NAME
            /\ trace[2].res = "CalledProcessError" =>
                /\ Raised("Exception")
                /\ Cmds(trace) = <<"list", "create">>

C1_Witness ==
    /\ op = "setup"
    /\ listed = "absent"
    /\ Len(trace) = 2
    /\ trace[2].cmd = "create"
    /\ trace[2].res = "CalledProcessError"
    /\ Raised("Exception")

\* C2: every execution of setup() that does not fail at VM creation makes its
\* calls in the order list, (create iff the name was absent), vm_running,
\* (restore_vm iff the VM was not running), env export; the env export is
\* made in every such execution.
C2_SetupOrder ==
    (op = "setup" /\ pc = "done" /\ ~Raised("Exception")) =>
        /\ envStart >= 2
        /\ Len(trace) > envStart
        /\ trace[envStart + 1].cmd = "env"
        /\ ~trace[envStart + 1].retried
        /\ LET pre == Cmds(SubSeq(trace, 1, envStart))
               n == Len(pre)
               created == n >= 2 /\ pre[2] = "create"
               r == IF created THEN 3 ELSE 2
           IN /\ pre[1] = "list"
              /\ created <=> listed = "absent"
              /\ n >= r /\ pre[r] = "vm_running"
              /\ IF trace[r].res = "False"
                 THEN n = r + 1 /\ pre[n] = "restore_vm"
                 ELSE n = r

\* C3: within one recovery episode the restart command is issued at most
\* once, whatever the outcomes of the other commands.
C3_RestartAtMostOnce == Count(Episode, "restart") <= 1

C3_Witness ==
    /\ pc = "done"
    /\ Count(Episode, "restart") = 1
    /\ Count(Episode, "regenerate_certs") = 2
    /\ \E i \in 1..Len(Episode) :
        /\ Episode[i].cmd = "restart" /\ Episode[i].res = "ok"
        /\ Episode[i + 1].cmd = "regenerate_certs"
        /\ Episode[i + 1].res # "ok"

\* C4: every _set_env() call ends: an operation in progress can always
\* take its next step, every step makes one more call, and inside one
\* _set_env() call there are at most 2 env exports, 2 regenerate_certs, 1
\* restart, 1 remove and 1 create, and no other call.
C4_Bounded ==
    /\ Count(Episode, "env") <= 2
    /\ Count(Episode, "regenerate_certs") <= 2
    /\ Count(Episode, "restart") <= 1
    /\ Count(Episode, "remove") <= 1
    /\ Count(Episode, "create") <= 1
    /\ \A i \in 1..Len(Episode) : Episode[i].cmd \in RepairCmds \cup {"env"}

C4_Progress == InProgress => Len(trace') = Len(trace) + 1

C4_SetEnvTerminates ==
    /\ [](C4_Bounded /\ (InProgress => ENABLED Next))
    /\ [][C4_Progress]_vars

C4_Witness ==
    /\ pc = "done"
    /\ Count(Episode, "env") = 2
    /\ Count(Episode, "regenerate_certs") = 2
    /\ Count(Episode, "restart") = 1
    /\ Count(Episode, "remove") = 1
    /\ Count(Episode, "create") = 1

\* C5: once a regenerate_certs command has succeeded, the only call after
\* it is one env export with retried=True (no restart, remove or create),
\* and the operation ends as that _set_env(retried=True) ended.
C5_RegenerateShortCircuits ==
    \A i \in 1..Len(trace) :
        (trace[i].cmd = "regenerate_certs" /\ trace[i].res = "ok") =>
            /\ Len(trace) <= i + 1
            /\ Len(trace) = i => (pc = "set_env" /\ retried)
            /\ Len(trace) = i + 1 =>
                /\ trace[i + 1].cmd = "env"
                /\ trace[i + 1].retried
                /\ pc = "done"
                /\ retryResult.kind # "none"
                /\ outcome.kind = retryResult.kind
                /\ outcome.val = retryResult.val

C5_Witness ==
    /\ pc = "done"
    /\ Len(trace) >= 2
    /\ trace[Len(trace) - 1].cmd = "regenerate_certs"
    /\ trace[Len(trace) - 1].res = "ok"
    /\ trace[Len(trace)].cmd = "env"
    /\ Raised("CalledProcessError")

\* C6: when the env export of _set_env(retried=True) fails, the error is
\* raised to the caller, no call is made after that export, and os.environ
\* and the certificate directory are as they were when that call began.
C6_RetriedFailureRaises ==
    \A i \in 1..Len(trace) :
        (trace[i].cmd = "env" /\ trace[i].retried
         /\ trace[i].res = "CalledProcessError") =>
            /\ Len(trace) = i
            /\ Raised("CalledProcessError")
            /\ environ = retryEnv.environ
            /\ config_dir = retryEnv.config_dir

C6_Witness ==
    /\ trace # <<>>
    /\ trace[Len(trace)].cmd = "env"
    /\ trace[Len(trace)].retried
    /\ trace[Len(trace)].res = "CalledProcessError"
    /\ config_dir # None
    /\ Raised("CalledProcessError")

\* C7: on every exit from a restart_ctx scope, the one where the body of
\* the scope raised included, the env export has been made.
C7_RestartCtxAlwaysSyncs ==
    (op = "restart_ctx" /\ pc = "done") => Count(trace, "env") >= 1

\* C8 as stated, its clause on the driver's commands: a non-zero exit of
\* the create, list or ip command is absorbed by the operation that issued
\* the command and never reaches the caller as an error of that command.
C8_NonZeroExitAbsorbed ==
    (pc = "done" /\ trace # <<>>
     /\ trace[Len(trace)].cmd \in {"create", "list", "ip"}
     /\ trace[Len(trace)].res = "CalledProcessError") =>
        ~(outcome.kind = "raise" /\ outcome.val = "CalledProcessError")

\* C8 as amended: a non-zero exit of the create or of the list command is
\* absorbed (create returns False, vms returns the empty sequence) and a
\* CalledProcessError reaches the caller of a public operation only from
\* the ip command of get_port_mapping, which does not absorb it, or from
\* the env export of the retried environment sync.
C8_CreateAndListAbsorbed ==
    pc = "done" =>
        /\ op = "create" =>
            /\ outcome.kind = "return"
            /\ outcome.val = (trace[1].res = "ok")
        /\ (op = "vms" /\ trace[1].res = "CalledProcessError") =>
            /\ outcome.kind = "return"
            /\ outcome.val = <<>>
        /\ (op = "get_port_mapping" /\ trace[Len(trace)].cmd = "ip"
            /\ trace[Len(trace)].res = "CalledProcessError") =>
            Raised("CalledProcessError")
        /\ Raised("CalledProcessError") =>
            /\ trace[Len(trace)].res = "CalledProcessError"
            /\ \/ trace[Len(trace)].cmd = "ip"
               \/ trace[Len(trace)].cmd = "env" /\ trace[Len(trace)].retried

C8_Witness ==
    /\ op = "get_port_mapping"
    /\ Len(trace) = 2
    /\ trace[2].cmd = "ip"
    /\ trace[2].res = "CalledProcessError"
    /\ Raised("CalledProcessError")

\* C9: the vms property returns a sequence and never raises, whatever the
\* list command did: the empty sequence after a non-zero exit and after
\* empty output, a sequence of names after output of any number of lines.
C9_VmsNeverRaises ==
    (op = "vms" /\ pc = "done") =>
        /\ outcome.kind = "return"
        /\ (trace[1].res = "CalledProcessError" \/ cmdOut = <<>>) =>
            outcome.val = <<>>

\* the first whitespace-delimited word of a line that has one
FirstWord(line) ==
    LET a == CHOOSE a \in 1..Len(line) :
                 ~IsSpace(line[a]) /\ \A j \in 1..(a - 1) : IsSpace(line[j])
        b == CHOOSE b \in a..Len(line) :
                 /\ \A j \in a..b : ~IsSpace(line[j])
                 /\ b = Len(line) \/ IsSpace(line[b + 1])
    IN SubSeq(line, a, b)

HasWord(line) == \E a \in 1..Len(line) : ~IsSpace(line[a])

\* the output is a header line, data lines that each hold a word, and a
\* trailing blank line
WellFormedList(lines) ==
    /\ Len(lines) >= 2
    /\ lines[Len(lines)] = <<>>
    /\ \A i \in 2..(Len(lines) - 1) : HasWord(lines[i])

\* C10: for list output made of a header line, N data lines and a trailing
\* blank line, vms returns exactly N names, the i-th the first word of the
\* i-th data line.
C10_VmsNames ==
    (op = "vms" /\ pc = "done" /\ trace[1].res = "ok") =>
        LET lines == split(cmdOut, "\n") IN
        WellFormedList(lines) =>
            /\ outcome.kind = "return"
            /\ Len(outcome.val) = Len(lines) - 2
            /\ \A i \in 1..(Len(lines) - 2) : outcome.val[i] = FirstWord(lines[i + 1])

C10_Witness ==
    /\ op = "vms"
    /\ pc = "done"
    /\ trace[1].res = "ok"
    /\ WellFormedList(split(cmdOut, "\n"))
    /\ outcome.kind = "return"
    /\ outcome.val = <<DOCKER_VM_NAME, <<"o", "t", "h", "e", "r", "-", "v", "m">> >>

\* C11: whatever name and parameters create() is given, it issues the
\* create command exactly once and makes no other call, never raises on a
\* non-zero exit of that command, and returns True exactly when the
\* command succeeded and False when it exited non-zero.
C11_CreateReturnsBoolean ==
    (op = "create" /\ pc = "done") =>
        /\ Cmds(trace) = <<"create">>
        /\ trace[1].args \in ParamSets
        /\ outcome.kind = "return"
        /\ outcome.val \in BOOLEAN
        /\ outcome.val <=> trace[1].res = "ok"
        /\ ~outcome.val <=> trace[1].res = "CalledProcessError"

C11_Witness ==
    /\ op = "create"
    /\ pc = "done"
    /\ trace[1].name = <<"v", "m">>
    /\ trace[1].args = {"cpu_count", "extra"}
    /\ trace[1].res = "CalledProcessError"
    /\ outcome.kind = "return"
    /\ outcome.val = FALSE

---------------------------------------------------------------------------
(* Reading the output of the env command.                                  *)

\* the last call made
Last == trace[Len(trace)]

\* the operation has ended and its last call was an env export that
\* succeeded; cmdOut is what that export printed
SyncDone == pc = "done" /\ trace # <<>> /\ Last.cmd = "env" /\ Last.res = "ok"

\* the line reads set VAR=VALUE, the directive in any case
IsSetLine(line) ==
    /\ Len(line) >= 5
    /\ lower(SubSeq(line, 1, 3)) = S_set
    /\ line[4] = " "
    /\ \E k \in 5..Len(line) : line[k] = "="

\* where the first = of a set line is
EqAt(line) == CHOOSE k \in 5..Len(line) : line[k] = "=" /\ \A j \in 5..(k - 1) : line[j] # "="

VarOf(line) == SubSeq(line, 5, EqAt(line) - 1)

ValueOf(line) == SubSeq(line, EqAt(line) + 1, Len(line))

\* a value without the quotes that surround it
Unquoted(v) ==
    IF Len(v) >= 2 /\ v[1] = "\"" /\ v[Len(v)] = "\"" THEN SubSeq(v, 2, Len(v) - 1) ELSE v

\* line i is the last line of lines that sets its variable
LastSetOf(lines, i) ==
    /\ IsSetLine(lines[i])
    /\ \A j \in (i + 1)..Len(lines) :
        IsSetLine(lines[j]) => VarOf(lines[j]) # VarOf(lines[i])

---------------------------------------------------------------------------

\* C12: after an env export that succeeded and whose output was read to
\* its end, for every line set VAR=VALUE of the output (the last one for
\* its VAR) os.environ[VAR] is VALUE without its surrounding quotes; for
\* set DOCKER_CERT_PATH="/a/b/c" os.environ holds /a/b/c and the
\* certificate directory is /a/b.
C12_QuotesStripped ==
    (SyncDone /\ outcome.kind = "return") =>
        LET lines == split(cmdOut, "\n") IN
        \A i \in 1..Len(lines) :
            LastSetOf(lines, i) =>
                /\ VarOf(lines[i]) \in DOMAIN environ
                /\ environ[VarOf(lines[i])] = Unquoted(ValueOf(lines[i]))
                /\ lines[i] = E_cert =>
                    /\ environ[DOCKER_CERT_PATH] = <<"/", "a", "/", "b", "/", "c">>
                    /\ config_dir = <<"/", "a", "/", "b">>

\* the first word of the line is the set directive, in any case
StartsWithSet(line) ==
    /\ Len(line) >= 3
    /\ lower(SubSeq(line, 1, 3)) = S_set
    /\ Len(line) > 3 => line[4] = " "

\* every line of the output that starts with the set directive reads
\* set VAR=VALUE
SetLinesWellFormed(lines) ==
    \A i \in 1..Len(lines) : StartsWithSet(lines[i]) => IsSetLine(lines[i])

\* C13: in the output of a successful env export, a line that does not
\* start with the set directive (in any case), a one-word line included,
\* raises no error and does not stop the set lines after it from being
\* applied: the sync ends normally and every variable set by a line of the
\* output is in os.environ with that line's value.
C13_NonSetLinesIgnored ==
    SyncDone =>
        LET lines == split(cmdOut, "\n") IN
        SetLinesWellFormed(lines) =>
            /\ outcome.kind = "return"
            /\ \A i \in 1..Len(lines) :
                LastSetOf(lines, i) =>
                    /\ VarOf(lines[i]) \in DOMAIN environ
                    /\ environ[VarOf(lines[i])]
                           \in {ValueOf(lines[i]), Unquoted(ValueOf(lines[i]))}

\* the lines of the output that set DOCKER_CERT_PATH
CertLines(lines) ==
    {i \in 1..Len(lines) : IsSetLine(lines[i]) /\ VarOf(lines[i]) = DOCKER_CERT_PATH}

\* the value the output gives DOCKER_CERT_PATH: that of the last such line
CertValue(lines) ==
    ValueOf(lines[CHOOSE i \in CertLines(lines) : \A j \in CertLines(lines) : j <= i])

\* a path without its quotes and without its final segment
DirOf(v) ==
    LET u == Unquoted(v)
        seps == {k \in 1..Len(u) : u[k] = os_path_sep}
    IN IF seps = {} THEN <<>>
       ELSE SubSeq(u, 1, (CHOOSE k \in seps : \A j \in seps : j <= k) - 1)

\* this step is an env export that succeeded with non-empty output
SyncStep ==
    /\ pc = "set_env"
    /\ trace'[Len(trace')].res = "ok"
    /\ cmdOut' # <<>>

\* one step of C14: a successful sync leaves the certificate directory
\* derived from its DOCKER_CERT_PATH (unchanged when its output names
\* none); every other step leaves the certificate directory as it was
C14_Step ==
    IF SyncStep
    THEN LET lines == split(cmdOut', "\n") IN
         IF CertLines(lines) # {}
         THEN config_dir' = DirOf(CertValue(lines))
         ELSE config_dir' = config_dir
    ELSE config_dir' = config_dir

\* C14: the certificate directory is None until an environment sync has
\* succeeded and from then on is the directory derived from the
\* DOCKER_CERT_PATH of the most recent successful sync (an env export
\* that succeeded with non-empty output); failed syncs and recovery steps
\* never change it.
C14_CertDirReflectsLastSync == (config_dir = None) /\ [][C14_Step]_vars

\* the number a string of decimal digits writes
Decimal(s) ==
    LET Sum[i \in 0..Len(s)] ==
            IF i = 0 THEN 0 ELSE 10 * Sum[i - 1] + DigitVal(s[i])
    IN Sum[Len(s)]

\* the line begins with a numeric character and parses as an IP literal
Qualifies(line) == line # <<>> /\ line[1] \in {Digits[k] : k \in 1..10} /\ ip_address(line)

\* get_port_mapping has made both its calls and the ip command succeeded
PortDone ==
    /\ op = "get_port_mapping"
    /\ pc = "done"
    /\ Len(trace) = 2
    /\ Last.cmd = "ip"
    /\ Last.res = "ok"

\* C15: get_port_mapping returns the pair of the first line of the ip
\* command's output that begins with a numeric character and parses as an
\* IP literal (the lines before it that do not are skipped) and the
\* integer HostPort of the first binding of <port>/tcp; when no line
\* qualifies it fails with an assertion violation.
C15_PortMapping ==
    PortDone =>
        LET lines == split(cmdOut, "\n")
            good == {i \in 1..Len(lines) : Qualifies(lines[i])}
        IN IF good = {}
           THEN Raised("AssertionError")
           ELSE /\ outcome.kind = "return"
                /\ outcome.val[1] = lines[CHOOSE i \in good : \A j \in good : i <= j]
                /\ outcome.val[2] = Decimal(trace[1].args[1])

C15_Witness ==
    /\ PortDone
    /\ trace[1].args = <<P_b, P_a>>
    /\ cmdOut = join(<<"\n">>, <<I_bad, I_ip>>)
    /\ outcome.kind = "return"
    /\ outcome.val = <<I_ip, 80>>

\* get_port_mapping finds no line that qualifies
C15_WitnessNoIp ==
    /\ PortDone
    /\ cmdOut = join(<<"\n">>, <<I_text, I_short>>)
    /\ Raised("AssertionError")

\* setup() found the managed VM listed and running
ListedAndRunning ==
    /\ op = "setup"
    /\ listed = "present"
    /\ Len(trace) >= 2
    /\ trace[2].cmd = "vm_running"
    /\ trace[2].res = "True"

\* seq is the beginning of full
IsPrefix(seq, full) == Len(seq) <= Len(full) /\ seq = SubSeq(full, 1, Len(seq))

\* the env export of this step printed the output of the step's own
\* result once more: run again on what it left, it leaves the same
SameOutputAgain ==
    LET again == _set_env(Ok(cmdOut'), FALSE, environ', config_dir') IN
    /\ again.next = "done"
    /\ again.environ = environ'
    /\ again.config_dir = config_dir'

\* this step is an env export of setup() that succeeded
SetupSyncStep ==
    /\ op = "setup"
    /\ pc = "set_env"
    /\ trace'[Len(trace')].res = "ok"

\* C16 as stated: a setup() that finds the managed VM listed and running
\* makes only the calls list, vm_running and env export (no create, no
\* restore_vm, nothing else), and an env export that prints the same
\* output again leaves os.environ and the certificate directory as the
\* first one left them.
C16_SetupIdempotent ==
    /\ [](ListedAndRunning => IsPrefix(Cmds(trace), <<"list", "vm_running", "env">>))
    /\ [][SetupSyncStep => SameOutputAgain]_vars

\* setup() found the managed VM listed and running and its env export
\* succeeded at the first attempt
ListedRunningSynced ==
    /\ ListedAndRunning
    /\ Len(trace) >= 3
    /\ trace[3].res = "ok"

\* C16 as amended: a setup() that finds the managed VM listed and running
\* makes no create and no restore_vm call before its env export, which is
\* its third call; when that export succeeds it is the last call; only
\* when it fails do the calls of the recovery follow. An env export that
\* prints the same output again leaves os.environ and the certificate
\* directory as the first one left them, and no other step of setup()
\* changes them.
C16_SetupIdempotentWhenSynced ==
    /\ [](ListedAndRunning =>
            /\ IsPrefix(<<"list", "vm_running">>, Cmds(trace))
            /\ Len(trace) >= 3 => (trace[3].cmd = "env" /\ ~trace[3].retried)
            /\ Count(trace, "restore_vm") = 0
            /\ Count(trace, "create") > 0 => trace[3].res = "CalledProcessError")
    /\ [](ListedRunningSynced =>
            /\ pc = "done"
            /\ Cmds(trace) = <<"list", "vm_running", "env">>
            /\ outcome.kind = "raise" => outcome.val = "ValueError")
    /\ [][(SetupSyncStep => SameOutputAgain)
          /\ ((op = "setup" /\ op' = "setup" /\ pc # "set_env") =>
                 (environ' = environ /\ config_dir' = config_dir))]_vars

C16_Witness ==
    /\ ListedRunningSynced
    /\ pc = "done"
    /\ outcome.kind = "return"
    /\ cmdOut = join(<<"\n">>, <<E_tls, E_cert>>)
    /\ DOMAIN environ = {VarOf(E_tls), DOCKER_CERT_PATH}
    /\ config_dir = <<"/", "a", "/", "b">>

\* the env export of _set_env(retried=False) failed: a recovery episode
Recovering == Episode # <<>> /\ Episode[1].cmd = "env" /\ Episode[1].res = "CalledProcessError"

\* C17: when the env export of _set_env(retried=False) fails, the failure
\* is not raised: the recovery runs (regenerate_certs is the next call) and
\* ends with the env export of _set_env(retried=True); the call raises to
\* its caller exactly when that retried export fails too, and returns
\* normally when it succeeds, whichever repair steps failed before it.
C17_FirstFailureRecovered ==
    Recovering =>
        /\ ~Episode[1].retried
        /\ Len(Episode) >= 2 => Episode[2].cmd = "regenerate_certs"
        /\ pc # "done" => outcome = NoResult
        /\ pc = "done" =>
            /\ Len(Episode) >= 3
            /\ Last.cmd = "env"
            /\ Last.retried
            /\ outcome.kind = "raise" <=> Last.res = "CalledProcessError"
            /\ outcome.kind = "return" <=> Last.res = "ok"

\* the positions before i in the episode where cmd c was issued
Before(i, c) == {j \in 1..(i - 1) : Episode[j].cmd = c}

\* the most recent regenerate_certs before position i failed
LastRegenerateFailed(i) ==
    /\ Before(i, "regenerate_certs") # {}
    /\ LET j == CHOOSE j \in Before(i, "regenerate_certs") :
                    \A k \in Before(i, "regenerate_certs") : k <= j
       IN Episode[j].res \in {"CalledProcessError", "TimeoutExpired"}

\* C18: in a recovery episode, restart is issued only right after a
\* regenerate_certs that failed (non-zero exit or timeout); remove only
\* when the most recent regenerate_certs failed and restart either has
\* just failed or was made earlier in the episode; create only right
\* after a remove that returned True, and with no configuration parameter.
C18_EscalationOrder ==
    \A i \in 1..Len(Episode) :
        /\ Episode[i].cmd = "restart" =>
            /\ i > 1
            /\ Episode[i - 1].cmd = "regenerate_certs"
            /\ Episode[i - 1].res \in {"CalledProcessError", "TimeoutExpired"}
        /\ Episode[i].cmd = "remove" =>
            /\ LastRegenerateFailed(i)
            /\ Before(i, "restart") # {}
            /\ \/ Episode[i - 1].cmd = "restart"
                  /\ Episode[i - 1].res \in {"CalledProcessError", "TimeoutExpired"}
               \/ Episode[i - 1].cmd = "regenerate_certs"
                  /\ \E j \in Before(i - 1, "restart") : Episode[j].res = "ok"
        /\ Episode[i].cmd = "create" =>
            /\ i > 1
            /\ Episode[i - 1].cmd = "remove"
            /\ Episode[i - 1].res = "True"
            /\ Episode[i].args = {}
            /\ Episode[i].name = DOCKER_VM_NAME

C18_Witness ==
    /\ pc = "done"
    /\ Len(Episode) = 7
    /\ Cmds(Episode) = <<"env", "regenerate_certs", "restart", "regenerate_certs",
                         "remove", "create", "env">>
    /\ Episode[2].res = "CalledProcessError"
    /\ Episode[3].res = "ok"
    /\ Episode[4].res = "TimeoutExpired"
    /\ Episode[5].res = "True"

\* the calls of the episode after its first env export: the recovery
Recovery == SubSeq(Episode, 2, Len(Episode))

\* C19: in every recovery episode, whatever its repair steps did, the env
\* export with retried=True is made exactly once and is the last call of
\* the episode; a failure of remove or of create (False or a non-zero
\* exit) is never what the caller gets: an error that reaches the caller
\* out of a recovery comes from the retried sync, after the recreate stage.
C19_TerminalSyncOnce ==
    Recovering =>
        LET retries == {i \in 1..Len(Episode) : Episode[i].cmd = "env" /\ Episode[i].retried}
        IN /\ Cardinality(retries) <= 1
           /\ \A i \in retries : i = Len(Episode) /\ pc = "done"
           /\ pc = "done" => Cardinality(retries) = 1
           /\ (Len(Episode) >= 2 /\ Last.cmd \in {"remove", "create"}) =>
                /\ outcome = NoResult
                /\ IF Last.cmd = "remove" /\ Last.res = "True"
                   THEN pc = "recover_create"
                   ELSE pc = "set_env" /\ retried

C19_Witness ==
    /\ Recovering
    /\ pc = "done"
    /\ Len(Episode) = 6
    /\ Episode[5].cmd = "remove"
    /\ Episode[5].res = "CalledProcessError"
    /\ Episode[6].cmd = "env"
    /\ Episode[6].retried
    /\ Episode[6].res = "ok"
    /\ outcome.kind = "return"

\* this step is an env export that succeeded with empty output
EmptySyncStep ==
    /\ pc = "set_env"
    /\ trace'[Len(trace')].res = "ok"
    /\ cmdOut' = <<>>

\* one step of C20
C20_Step ==
    EmptySyncStep =>
        /\ pc' = "done"
        /\ outcome'.kind = "return"
        /\ outcome'.val = None
        /\ Len(trace') = Len(trace) + 1
        /\ trace'[Len(trace')].cmd = "env"
        /\ trace'[Len(trace')].retried = retried
        /\ environ' = environ
        /\ config_dir' = config_dir

\* C20: when the env export succeeds with empty output, _set_env (retried
\* False or True) returns normally, makes no call after the export (no
\* regenerate_certs, restart, remove or create) and leaves os.environ and
\* the certificate directory as they were.
C20_EmptyOutputIsQuiet == [][C20_Step]_vars

C20_Witness ==
    /\ pc = "done"
    /\ trace # <<>>
    /\ Last.cmd = "env"
    /\ Last.retried
    /\ Last.res = "ok"
    /\ cmdOut = <<>>
    /\ outcome.kind = "return"
    /\ config_dir = <<"/", "x">>
    /\ DOCKER_CERT_PATH \in DOMAIN environ

====
